---- MODULE Spec2Model ----
(***************************************************************************)
(* sample_fastq_to_gvcf.py: one sample's paired reads are aligned per      *)
(* read group, variants are called per chromosome, the per-chromosome      *)
(* gVCFs are concatenated and uploaded; S3 holds the inputs and caches     *)
(* every intermediate file.  The model follows main() statement by         *)
(* statement; every S3 operation, tool invocation and os.remove is one     *)
(* step that either succeeds or raises, and an exception nobody catches    *)
(* ends the process.                                                       *)
(***************************************************************************)
EXTENDS Integers, Sequences, FiniteSets, TLC

(***************************************************************************)
(* Bounds of the model.                                                    *)
(***************************************************************************)
\* longest input_fastq list tried
MaxFastq == 2
\* invocations of the program on the same inputs and bucket
MaxRuns == 2

(***************************************************************************)
(* Python string primitives used by the program.  Strings are TLA+         *)
(* strings; positions are Python's (0-based), -1 is "not found".           *)
(***************************************************************************)
Max(a, b) == IF a >= b THEN a ELSE b
Min(a, b) == IF a <= b THEN a ELSE b

\* s[j] as a one-character string, j 0-based and in range
CharAt(s, j) == SubSeq(s, j + 1, j + 1)

\* s[:n]
SliceTo(s, n) ==
    IF n >= 0 THEN SubSeq(s, 1, Min(n, Len(s)))
    ELSE SubSeq(s, 1, Max(Len(s) + n, 0))

\* s[n:]
SliceFrom(s, n) ==
    IF n >= 0 THEN SubSeq(s, Min(n, Len(s)) + 1, Len(s))
    ELSE SubSeq(s, Max(Len(s) + n, 0) + 1, Len(s))

\* s.find(ch, from): lowest index >= from holding ch, or -1
RECURSIVE FindFrom(_, _, _)
FindFrom(s, ch, from) ==
    IF from >= Len(s) THEN -1
    ELSE IF CharAt(s, from) = ch THEN from
    ELSE FindFrom(s, ch, from + 1)

\* s.find(ch)
Find(s, ch) == FindFrom(s, ch, 0)

\* s.rfind(ch) over s[:upto]: highest index < upto holding ch, or -1
RECURSIVE RFindBelow(_, _, _)
RFindBelow(s, ch, upto) ==
    IF upto <= 0 THEN -1
    ELSE IF CharAt(s, upto - 1) = ch THEN upto - 1
    ELSE RFindBelow(s, ch, upto - 1)

\* s.startswith(p)
StartsWith(s, p) == Len(s) >= Len(p) /\ SubSeq(s, 1, Len(p)) = p

\* os.path.basename(p): what follows the last '/'
basename(p) == SliceFrom(p, RFindBelow(p, "/", Len(p)) + 1)

\* template.format(**kw) for templates whose fields are plain {name}; a field
\* that kw does not bind raises KeyError, shown as the result "KeyError"
RECURSIVE FormatFrom(_, _, _)
FormatFrom(t, kw, from) ==
    LET open == FindFrom(t, "{", from)
    IN  IF open = -1 THEN SliceFrom(t, from)
        ELSE LET close == FindFrom(t, "}", open)
                 name  == SubSeq(t, open + 2, close)
             IN  IF close = -1 \/ name \notin DOMAIN kw THEN "KeyError"
                 ELSE LET rest == FormatFrom(t, kw, close + 1)
                      IN  IF rest = "KeyError" THEN rest
                          ELSE SubSeq(t, from + 1, open) \o kw[name] \o rest

Format(t, kw) == FormatFrom(t, kw, 0)

\* str(n) for the small non-negative integers the program formats
Digit(d) == SubSeq("0123456789", d + 1, d + 1)
str(n) == IF n < 10 THEN Digit(n) ELSE Digit(n \div 10) \o Digit(n % 10)

(***************************************************************************)
(* Program constants.                                                      *)
(***************************************************************************)
\* range(23) in the definition of chroms
NumberedChroms == 23
\* fq1[:-15]: the tail of the first-mate key that is replaced
MateSuffixLen == 15
\* basename(fq1)[:-16]: the tail of the base name dropped for the read group
ReadGroupSuffixLen == 16
\* bucket[5:]: the length of "s3://"
SchemeLen == 5

\* chroms = [str(x) for x in range(23)] + ['X', 'Y', 'MT']
chroms == [k \in 1..NumberedChroms |-> str(k - 1)] \o <<"X", "Y", "MT">>

\* argparse defaults of --bam_key and --gvcf_key
DefaultBamKey == "1000genomes/BAM/{sample}/{run}.bam"
DefaultGvcfKey == "1000genomes/gVCF/{sample}/{sample}_{chrom}.g.vcf.gz"

(***************************************************************************)
(* Name resolution in main().  A name that main assigns anywhere is local  *)
(* to it for the whole body; any other name is looked up among the         *)
(* module's globals.                                                       *)
(***************************************************************************)
ModuleGlobals ==
    {"argparse", "boto3", "botocore", "os", "logging", "subprocess",
     "align_cmd", "index_cmd", "call_vars_cmd", "gvcf_concat_cmd", "chroms",
     "download_and_align", "call_vars", "index_bam", "concat_gvcf",
     "process_args", "main"}

MainLocals ==
    {"args", "log_format", "session", "s3", "bucket_end", "bucket", "key",
     "bams", "s3_bams", "fastq", "fq_bucket_end", "fq_bucket", "fq1", "fq2",
     "read_group_id", "bam_key", "bam_in_s3", "s3_bam", "e", "bam_out",
     "next_bam", "gvcfs", "s3_gvcfs", "chrom", "gvcf_key", "gvcf_in_s3",
     "s3_gvcf", "gvcf_out", "next_gvcf", "gvcf_idx", "bam", "concat_gvcf",
     "gvcf", "to_remove", "response"}

\* does reading `name` in main() yield a value, given the locals assigned so far
Resolves(name, assigned) ==
    IF name \in MainLocals THEN name \in assigned ELSE name \in ModuleGlobals

\* the names main reads at line 195 (the gVCF key), at line 235 (the call of
\* concat_gvcf) and at lines 242-250 (final upload and removal)
NamesReadAt(line) ==
    CASE line = "L195" -> {"args", "sample", "chrom"}
      [] line = "L235" -> {"concat_gvcf", "gvcfs", "args"}
      [] line = "L242" -> {"logging", "s3", "gvcf_local", "gvcf_index", "bucket",
                           "key", "os"}

\* the locals of main that every path to the line has assigned (input_fastq
\* and chroms are not empty, so both loops have run)
AssignedAt(line) ==
    LET upto195 == {"args", "log_format", "session", "s3", "bucket_end", "bucket",
                    "key", "bams", "s3_bams", "fastq", "fq_bucket_end",
                    "fq_bucket", "fq1", "fq2", "read_group_id", "bam_key",
                    "bam_in_s3", "s3_bam", "gvcfs", "s3_gvcfs", "chrom"}
        upto235 == upto195 \cup {"gvcf_key", "gvcf_in_s3", "s3_gvcf", "bam"}
    IN  CASE line = "L195" -> upto195
          [] line = "L235" -> upto235
          [] line = "L242" -> upto235 \cup {"concat_gvcf", "gvcf"}

(***************************************************************************)
(* Pure derivations of main() and download_and_align().                    *)
(***************************************************************************)
\* lines 139-143 and 148-152: the part of a locator before its first '/',
\* less a leading "s3://"
BucketOf(loc) ==
    LET b == SliceTo(loc, Find(loc, "/"))
    IN  IF StartsWith(b, "s3://") THEN SliceFrom(b, SchemeLen) ELSE b

\* the part of a locator after its first '/'
KeyOf(loc) == SliceFrom(loc, Find(loc, "/") + 1)

\* fq2 = fq1[:-15] + "2.filt.fastq.gz"
MateOf(k) == SliceTo(k, 0 - MateSuffixLen) \o "2.filt.fastq.gz"

\* ReadGroupOf with the mate suffix length used for the read group too
ReadGroupOf_MateLength(k) == SliceTo(basename(k), 0 - MateSuffixLen)

\* read_group_id = os.path.basename(fq1)[:-16]
ReadGroupOf(k) == SliceTo(basename(k), 0 - ReadGroupSuffixLen)

\* BamKeyOf with the read group left out of the key
BamKeyOf_SampleOnly(template, sample_name, rg) ==
    Format(template, [sample |-> sample_name, run |-> ""])

\* bam_key = args.bam_key.format(sample=args.sample_name, run=read_group_id)
BamKeyOf(template, sample_name, rg) ==
    Format(template, [sample |-> sample_name, run |-> rg])

\* args.gvcf_key.format(sample=sample, chrom=chrom), for a value of `sample`
GvcfKeyOf(template, sample, chrom) ==
    Format(template, [sample |-> sample, chrom |-> chrom])

\* read_group = r"@RG\tID:{}\tSM:{}".format(read_group_id, sample)
ReadGroupTag(rg, sample) == "@RG\\tID:" \o rg \o "\\tSM:" \o sample

\* "/ephemeral/{read_group}_sorted.bam".format(read_group=read_group_id)
BamLocal(rg) == "/ephemeral/" \o rg \o "_sorted.bam"

\* hc_output = "/ephemeral/" + sample_name + '_' + chrom + ".g.vcf.gz"
GvcfLocal(sample_name, chrom) ==
    "/ephemeral/" \o sample_name \o "_" \o chrom \o ".g.vcf.gz"

\* "/ephemeral/" + os.path.basename(fq)
FqLocal(k) == "/ephemeral/" \o basename(k)

(***************************************************************************)
(* Inputs tried: the command line of one invocation.                       *)
(***************************************************************************)
SampleNames == {"S1"}

UploadLocations == {"b/out/S1.g.vcf.gz", "s3://b/out/S1.g.vcf.gz"}

\* first-mate locators: plain bucket/key, the same base name under another
\* prefix, the s3:// form, and a key that names the second mate
Locators ==
    {"b/d/r1_1.filt.fastq.gz", "b/e/r1_1.filt.fastq.gz",
     "s3://b/r2_1.filt.fastq.gz", "b/d/r3_2.filt.fastq.gz"}

FastqLists == UNION {[1..n -> Locators] : n \in 1..MaxFastq}

VARIABLES
    args,           \* the parsed command line, the same for every run
    run,            \* which invocation of the program this is
    pc,             \* the statement main() is about to execute
    err,            \* the exception that ended the run, or "none"
    bucket, key,    \* main's bucket and key of upload_location
    i,              \* position of `fastq` in args.input_fastq
    fq_bucket, fq1, fq2, read_group_id, bam_key,
    bams, s3_bams, gvcfs, s3_gvcfs,
    remote,         \* objects in S3: <<bucket, key>> of the cache objects
    local,          \* files under /ephemeral
    log,            \* what this run has done so far, in order:
                    \*   <<"load" | "download" | "upload", bucket, key, result>>
                    \*   <<"tool", name, output file, result>>
                    \*   <<"remove", path, "", result>>
    cacheAtStart,   \* remote as it was when this run started
    peer            \* the other process on the same bucket, while this
                    \*   one is scheduled: its memory, files and log

iterVars == <<fq_bucket, fq1, fq2, read_group_id, bam_key>>
listVars == <<bams, s3_bams, gvcfs, s3_gvcfs>>
vars == <<args, run, pc, err, bucket, key, i, iterVars, listVars,
          remote, local, log, cacheAtStart, peer>>

\* the state of a process that has just been started
Fresh ==
    /\ pc = "L131"
    /\ err = "none"
    /\ bucket = "" /\ key = ""
    /\ i = 0
    /\ fq_bucket = "" /\ fq1 = "" /\ fq2 = "" /\ read_group_id = "" /\ bam_key = ""
    /\ bams = <<>> /\ s3_bams = <<>> /\ gvcfs = <<>> /\ s3_gvcfs = <<>>
    /\ log = <<>>

\* the program runs alone
NoPeer == [pc |-> "none"]

\* a second process of the same program, just started on a scratch directory
\* of its own
FreshPeer ==
    [pc |-> "L131", err |-> "none", bucket |-> "", key |-> "", i |-> 0,
     fq_bucket |-> "", fq1 |-> "", fq2 |-> "", read_group_id |-> "", bam_key |-> "",
     bams |-> <<>>, s3_bams |-> <<>>, gvcfs |-> <<>>, s3_gvcfs |-> <<>>,
     local |-> {}, log |-> <<>>]

\* the cache objects main derives from a command line
CacheObjects(a) ==
    LET b  == BucketOf(a.upload_location)
        ks == {BamKeyOf(a.bam_key, a.sample_name, ReadGroupOf(KeyOf(a.input_fastq[n]))) :
                  n \in 1..Len(a.input_fastq)}
    IN  {<<b, k>> : k \in ks} \cup {<<b, k \o ".bai">> : k \in ks}

Init ==
    /\ args \in [upload_location : UploadLocations,
                 sample_name : SampleNames,
                 input_fastq : FastqLists,
                 bam_key : {DefaultBamKey},
                 gvcf_key : {DefaultGvcfKey}]
    /\ run = 1
    /\ Fresh
    /\ remote \in SUBSET CacheObjects(args)
    /\ local = {}
    /\ cacheAtStart = remote
    /\ peer = NoPeer

\* an uncaught exception: the interpreter unwinds main() and exits non-zero
Raise(e) == pc' = "aborted" /\ err' = e

(***************************************************************************)
(* main(), lines 131-146.                                                  *)
(***************************************************************************)
Start ==
    /\ pc = "L131"
    /\ bucket' = BucketOf(args.upload_location)
    /\ key' = KeyOf(args.upload_location)
    /\ bams' = <<>> /\ s3_bams' = <<>>
    /\ i' = 1
    /\ pc' = "L147"
    /\ UNCHANGED <<args, run, err, iterVars, gvcfs, s3_gvcfs,
                   remote, local, log, cacheAtStart, peer>>

(***************************************************************************)
(* The steps shared by the stages: one S3 request, one tool, one           *)
(* os.remove.  `ok` is the environment's answer.                           *)
(***************************************************************************)
Logged(kind, a, b, result) == log' = Append(log, <<kind, a, b, result>>)

Outcome(ok) == IF ok THEN "ok" ELSE "error"

\* s3.Object(b, k).download_file(path): botocore raises ClientError when the
\* request fails; a cache object that is not there cannot be fetched
Download(b, k, path, cached, ok, nextpc) ==
    /\ ok => (~cached \/ <<b, k>> \in remote)
    /\ Logged("download", b, k, Outcome(ok))
    /\ IF ok THEN local' = local \cup {path} /\ pc' = nextpc /\ err' = err
             ELSE local' = local /\ Raise("ClientError")
    /\ UNCHANGED remote

\* s3.meta.client.upload_file(path, b, k)
Upload(path, b, k, ok, nextpc) ==
    /\ Logged("upload", b, k, Outcome(ok))
    /\ IF ok THEN remote' = remote \cup {<<b, k>>} /\ pc' = nextpc /\ err' = err
             ELSE remote' = remote /\ Raise("S3UploadFailedError")
    /\ UNCHANGED local

\* CheckCall with a handler that empties the scratch directory when the tool
\* fails
CheckCall_CleansUp(tool, out, ok, nextpc) ==
    /\ Logged("tool", tool, out, Outcome(ok))
    /\ IF ok THEN local' = local \cup {out} /\ pc' = nextpc /\ err' = err
             ELSE local' = {} /\ Raise("CalledProcessError")
    /\ UNCHANGED remote

\* subprocess.check_call(cmd, shell=True): CalledProcessError on a non-zero
\* exit status; on success the tool has written `out`
CheckCall(tool, out, ok, nextpc) ==
    /\ Logged("tool", tool, out, Outcome(ok))
    /\ IF ok THEN local' = local \cup {out} /\ pc' = nextpc /\ err' = err
             ELSE local' = local /\ Raise("CalledProcessError")
    /\ UNCHANGED remote

\* os.remove(path): FileNotFoundError when the file is not there
os_remove(path, nextpc) ==
    /\ Logged("remove", path, "", Outcome(path \in local))
    /\ IF path \in local
          THEN local' = local \ {path} /\ pc' = nextpc /\ err' = err
          ELSE local' = local /\ Raise("FileNotFoundError")
    /\ UNCHANGED remote

(***************************************************************************)
(* main(), lines 147-189: one read group per input_fastq.                  *)
(***************************************************************************)
\* lines 147-158: the next fastq, the names derived from it
NextFastq ==
    /\ pc = "L147"
    /\ i <= Len(args.input_fastq)
    /\ LET fastq == args.input_fastq[i]
           k     == KeyOf(fastq)
           rg    == ReadGroupOf(k)
           bk    == BamKeyOf(args.bam_key, args.sample_name, rg)
       IN  /\ fq_bucket' = BucketOf(fastq)
           /\ fq1' = k
           /\ fq2' = MateOf(k)
           /\ read_group_id' = rg
           /\ bam_key' = bk
           /\ s3_bams' = Append(s3_bams, bk)
    /\ pc' = "L162"
    /\ UNCHANGED <<args, run, err, bucket, key, i, bams, gvcfs, s3_gvcfs,
                   remote, local, log, cacheAtStart, peer>>

\* LoadBam with the answer of load() ignored: the alignment is always made
LoadBam_NeverFound ==
    /\ pc = "L162"
    /\ \E ok \in BOOLEAN :
          LET found == <<bucket, bam_key>> \in remote
          IN  /\ Logged("load", bucket, bam_key,
                        IF ~ok THEN "error" ELSE IF found THEN "found" ELSE "404")
              /\ IF ~ok THEN Raise("ClientError")
                 ELSE err' = err /\ pc' = "L44"
    /\ UNCHANGED <<args, run, bucket, key, i, iterVars, listVars,
                   remote, local, cacheAtStart, peer>>

\* LoadBam with every answer of load() taken as a hit
LoadBam_AssumesFound ==
    /\ pc = "L162"
    /\ \E ok \in BOOLEAN :
          /\ Logged("load", bucket, bam_key, IF ~ok THEN "error" ELSE "found")
          /\ IF ~ok THEN Raise("ClientError")
             ELSE err' = err /\ pc' = "L175"
    /\ UNCHANGED <<args, run, bucket, key, i, iterVars, listVars,
                   remote, local, cacheAtStart, peer>>

\* lines 159-171: s3_bam.load(); a 404 is a miss, any other ClientError is
\* raised again
LoadBam ==
    /\ pc = "L162"
    /\ \E ok \in BOOLEAN :
          LET found == <<bucket, bam_key>> \in remote
          IN  /\ Logged("load", bucket, bam_key,
                        IF ~ok THEN "error" ELSE IF found THEN "found" ELSE "404")
              /\ IF ~ok THEN Raise("ClientError")
                 ELSE /\ err' = err
                      /\ pc' = IF found THEN "L175" ELSE "L44"
    /\ UNCHANGED <<args, run, bucket, key, i, iterVars, listVars,
                   remote, local, cacheAtStart, peer>>

\* lines 173-175
DownloadBam ==
    /\ pc = "L175"
    /\ \E ok \in BOOLEAN :
          Download(bucket, bam_key, BamLocal(read_group_id), TRUE, ok, "L177")
    /\ UNCHANGED <<args, run, bucket, key, i, iterVars, listVars, cacheAtStart, peer>>

\* DownloadBai with the index left in S3: the BAM is taken as ready without it
DownloadBai_Skipped ==
    /\ pc = "L177"
    /\ bams' = Append(bams, BamLocal(read_group_id))
    /\ i' = i + 1
    /\ pc' = "L147"
    /\ UNCHANGED <<args, run, err, bucket, key, iterVars, s3_bams, gvcfs, s3_gvcfs,
                   remote, local, log, cacheAtStart, peer>>

\* lines 176-178, and back to the loop head
DownloadBai ==
    /\ pc = "L177"
    /\ \E ok \in BOOLEAN :
          /\ Download(bucket, bam_key \o ".bai",
                      BamLocal(read_group_id) \o ".bai", TRUE, ok, "L147")
          /\ bams' = IF ok THEN Append(bams, BamLocal(read_group_id)) ELSE bams
          /\ i' = IF ok THEN i + 1 ELSE i
    /\ UNCHANGED <<args, run, bucket, key, iterVars, s3_bams, gvcfs, s3_gvcfs,
                   cacheAtStart, peer>>

(***************************************************************************)
(* download_and_align(), lines 39-65, called at line 181.                  *)
(***************************************************************************)
\* lines 40-44
DownloadFq1 ==
    /\ pc = "L44"
    /\ \E ok \in BOOLEAN :
          Download(fq_bucket, fq1, FqLocal(fq1), FALSE, ok, "L46")
    /\ UNCHANGED <<args, run, bucket, key, i, iterVars, listVars, cacheAtStart, peer>>

\* lines 45-46
DownloadFq2 ==
    /\ pc = "L46"
    /\ \E ok \in BOOLEAN :
          Download(fq_bucket, fq2, FqLocal(fq2), FALSE, ok, "L59")
    /\ UNCHANGED <<args, run, bucket, key, i, iterVars, listVars, cacheAtStart, peer>>

\* lines 49-56: the parameters put into align_cmd
AlignCommand ==
    [read_group |-> ReadGroupTag(read_group_id, args.sample_name),
     fq1 |-> FqLocal(fq1),
     fq2 |-> FqLocal(fq2),
     out |-> BamLocal(read_group_id)]

\* lines 48-59: bwa mem | samblaster | samtools view | samtools sort
Align ==
    /\ pc = "L59"
    /\ \E ok \in BOOLEAN :
          CheckCall("align", AlignCommand.out, ok, "L62")
    /\ UNCHANGED <<args, run, bucket, key, i, iterVars, listVars, cacheAtStart, peer>>

\* lines 61-62
RemoveFq1 ==
    /\ pc = "L62"
    /\ os_remove(FqLocal(fq1), "L63")
    /\ UNCHANGED <<args, run, bucket, key, i, iterVars, listVars, cacheAtStart, peer>>

\* lines 63-65
RemoveFq2 ==
    /\ pc = "L63"
    /\ os_remove(FqLocal(fq2), "L182")
    /\ UNCHANGED <<args, run, bucket, key, i, iterVars, listVars, cacheAtStart, peer>>

\* index_bam(), lines 85-91, called at line 182; then line 183
IndexBam ==
    /\ pc = "L182"
    /\ \E ok \in BOOLEAN :
          /\ CheckCall("index", BamLocal(read_group_id) \o ".bai", ok, "L186")
          /\ bams' = IF ok THEN Append(bams, BamLocal(read_group_id)) ELSE bams
    /\ UNCHANGED <<args, run, bucket, key, i, iterVars, s3_bams, gvcfs, s3_gvcfs,
                   cacheAtStart, peer>>

\* lines 185-186
UploadBam ==
    /\ pc = "L186"
    /\ \E ok \in BOOLEAN :
          Upload(BamLocal(read_group_id), bucket, bam_key, ok, "L188")
    /\ UNCHANGED <<args, run, bucket, key, i, iterVars, listVars, cacheAtStart, peer>>

\* lines 187-188, and back to the loop head
UploadBai ==
    /\ pc = "L188"
    /\ \E ok \in BOOLEAN :
          /\ Upload(BamLocal(read_group_id) \o ".bai", bucket, bam_key \o ".bai",
                    ok, "L147")
          /\ i' = IF ok THEN i + 1 ELSE i
    /\ UNCHANGED <<args, run, bucket, key, iterVars, listVars, cacheAtStart, peer>>

(***************************************************************************)
(* main(), lines 190-195: the loop over chroms.                            *)
(***************************************************************************)
\* the fastq loop is exhausted; lines 191-193 with chrom = chroms[0]
AlignmentsDone ==
    /\ pc = "L147"
    /\ i > Len(args.input_fastq)
    /\ gvcfs' = <<>> /\ s3_gvcfs' = <<>>
    /\ pc' = "L195"
    /\ UNCHANGED <<args, run, err, bucket, key, i, iterVars, bams, s3_bams,
                   remote, local, log, cacheAtStart, peer>>

\* line 195: args.gvcf_key.format(sample=sample, chrom=chrom) reads `sample`,
\* which main never assigns and the module never defines: NameError
FormatGvcfKey ==
    /\ pc = "L195"
    /\ \E name \in NamesReadAt("L195") : ~Resolves(name, AssignedAt("L195"))
    /\ Raise("NameError")
    /\ UNCHANGED <<args, run, bucket, key, i, iterVars, listVars,
                   remote, local, log, cacheAtStart, peer>>

(***************************************************************************)
(* The program is started again on the same command line and bucket, after *)
(* it has ended or been killed at any point.  S3 keeps what was uploaded;  *)
(* the scratch directory is either the same or a new one.                  *)
(***************************************************************************)
Restart ==
    /\ run < MaxRuns
    /\ run' = run + 1
    /\ pc' = "L131"
    /\ err' = "none"
    /\ bucket' = "" /\ key' = ""
    /\ i' = 0
    /\ fq_bucket' = "" /\ fq1' = "" /\ fq2' = "" /\ read_group_id' = "" /\ bam_key' = ""
    /\ bams' = <<>> /\ s3_bams' = <<>> /\ gvcfs' = <<>> /\ s3_gvcfs' = <<>>
    /\ log' = <<>>
    /\ \E keep \in BOOLEAN : local' = IF keep THEN local ELSE {}
    /\ cacheAtStart' = remote
    /\ UNCHANGED <<args, remote, peer>>

Next ==
    \/ Start
    \/ NextFastq \/ LoadBam \/ DownloadBam \/ DownloadBai
    \/ DownloadFq1 \/ DownloadFq2 \/ Align \/ RemoveFq1 \/ RemoveFq2
    \/ IndexBam \/ UploadBam \/ UploadBai
    \/ AlignmentsDone \/ FormatGvcfKey
    \/ Restart

Spec == Init /\ [][Next]_vars

\* the same program on a bucket that holds no cache object at first: what a
\* later run finds is what the earlier runs left
InitEmptyBucket == Init /\ remote = {}
SpecResume == InitEmptyBucket /\ [][Next]_vars

(***************************************************************************)
(* Two processes of the program, started on the same command line against  *)
(* the same bucket, each with its own memory and scratch directory.  The   *)
(* operating system interleaves them between any two statements: Switch    *)
(* suspends the process that is running and resumes the other one, so the  *)
(* actions above are the steps of whichever process is scheduled.          *)
(***************************************************************************)
Switch ==
    /\ peer.pc # NoPeer.pc
    /\ peer' = [pc |-> pc, err |-> err, bucket |-> bucket, key |-> key, i |-> i,
                fq_bucket |-> fq_bucket, fq1 |-> fq1, fq2 |-> fq2,
                read_group_id |-> read_group_id, bam_key |-> bam_key,
                bams |-> bams, s3_bams |-> s3_bams,
                gvcfs |-> gvcfs, s3_gvcfs |-> s3_gvcfs,
                local |-> local, log |-> log]
    /\ pc' = peer.pc /\ err' = peer.err
    /\ bucket' = peer.bucket /\ key' = peer.key
    /\ i' = peer.i
    /\ fq_bucket' = peer.fq_bucket /\ fq1' = peer.fq1 /\ fq2' = peer.fq2
    /\ read_group_id' = peer.read_group_id /\ bam_key' = peer.bam_key
    /\ bams' = peer.bams /\ s3_bams' = peer.s3_bams
    /\ gvcfs' = peer.gvcfs /\ s3_gvcfs' = peer.s3_gvcfs
    /\ local' = peer.local /\ log' = peer.log
    /\ UNCHANGED <<args, run, remote, cacheAtStart>>

InitConc ==
    /\ args \in [upload_location : UploadLocations,
                 sample_name : SampleNames,
                 input_fastq : FastqLists,
                 bam_key : {DefaultBamKey},
                 gvcf_key : {DefaultGvcfKey}]
    /\ run = 1
    /\ Fresh
    /\ remote = {}
    /\ local = {}
    /\ cacheAtStart = remote
    /\ peer = FreshPeer

NextConc ==
    \/ Start
    \/ NextFastq \/ LoadBam \/ DownloadBam \/ DownloadBai
    \/ DownloadFq1 \/ DownloadFq2 \/ Align \/ RemoveFq1 \/ RemoveFq2
    \/ IndexBam \/ UploadBam \/ UploadBai
    \/ AlignmentsDone \/ FormatGvcfKey
    \/ Switch

SpecConc == InitConc /\ [][NextConc]_vars

(***************************************************************************)
(* Vocabulary of the properties.                                           *)
(***************************************************************************)
EndsWith(s, suf) == Len(s) >= Len(suf) /\ SliceFrom(s, Len(s) - Len(suf)) = suf

\* every input_fastq names a first-mate file
FirstMateInputs ==
    \A n \in 1..Len(args.input_fastq) :
        EndsWith(KeyOf(args.input_fastq[n]), "1.filt.fastq.gz")

\* no S3 request and no tool of this run has failed
NoOperationFailed ==
    \A p \in 1..Len(log) :
        log[p][1] \in {"load", "download", "upload", "tool"} => log[p][4] # "error"

Halted == pc = "aborted"

\* the events of the log that satisfy Test
Count(Test(_)) == Cardinality({p \in 1..Len(log) : Test(log[p])})

\* the cache held every alignment object of the command line when the run began
CacheWasFull == CacheObjects(args) \subseteq cacheAtStart

(***************************************************************************)
(* C1.  A run in which every S3 operation and every tool succeeds goes     *)
(* through the stages in order and reaches Done.  Stated on finite runs:   *)
(* given first-mate inputs, a run ends by an exception only if an S3       *)
(* operation or a tool failed.  The code violates it: line 195 reads the   *)
(* undefined name `sample` as soon as the alignments are ready.            *)
(***************************************************************************)
C1_ReachesDone == (Halted /\ FirstMateInputs) => ~NoOperationFailed

(***************************************************************************)
(* C2.  Idempotence: a run that starts with every alignment object of its  *)
(* inputs (data and index) already in the cache invokes no tool; all it    *)
(* does is existence checks and downloads.                                 *)
(***************************************************************************)
C2_Idempotence ==
    (\E p \in 1..Len(log) : log[p][1] \notin {"load", "download"}) => ~CacheWasFull

\* a second run, on a full cache, that has fetched every alignment
C2_Witness ==
    /\ run = 2
    /\ CacheWasFull
    /\ pc = "L195"
    /\ Len(args.input_fastq) >= 2
    /\ Len(log) = 3 * Len(args.input_fastq)

(***************************************************************************)
(* C3.  Dependency gating: when the loop over the partitions is entered,   *)
(* every read group has its alignment and its index on the local disk,     *)
(* `bams` (the input of every call_vars) lists one alignment per           *)
(* input_fastq in order, and no alignment listed in `bams` is ever removed *)
(* from the local disk.                                                    *)
(***************************************************************************)
C3_DependencyGating ==
    /\ pc = "L195" =>
          /\ Len(bams) = Len(args.input_fastq)
          /\ \A n \in 1..Len(args.input_fastq) :
                bams[n] = BamLocal(ReadGroupOf(KeyOf(args.input_fastq[n])))
    /\ \A n \in 1..Len(bams) :
          bams[n] \in local /\ (bams[n] \o ".bai") \in local

\* the partition loop is entered with two different alignments, one made by
\* this run and one fetched from the cache
C3_Witness ==
    /\ pc = "L195"
    /\ Len(bams) >= 2
    /\ bams[1] # bams[2]
    /\ Count(LAMBDA e : e[1] = "tool" /\ e[2] = "align") = 1
    /\ Count(LAMBDA e : e[1] = "load" /\ e[4] = "found") = 1

\* a run on first-mate inputs has ended and none of its S3 requests or tools
\* failed
RunEndedCleanly == Halted /\ FirstMateInputs /\ NoOperationFailed

(***************************************************************************)
(* C4.  Ordering: there are 25 partitions, and the list handed to          *)
(* concat_gvcf at the end of a run on which nothing failed holds one       *)
(* partition-call file per partition, in the order of chroms.  The code    *)
(* violates both halves: chroms has 26 entries ("0" to "22", X, Y, MT),    *)
(* and gvcfs is still empty when the run ends at line 195.                 *)
(***************************************************************************)
C4_MergeInput ==
    /\ Len(chroms) = 25
    /\ RunEndedCleanly =>
          gvcfs = [n \in 1..Len(chroms) |-> GvcfLocal(args.sample_name, chroms[n])]

(***************************************************************************)
(* C5.  Cleanup completeness: when a run on which nothing failed has       *)
(* ended, the scratch directory is empty and the bucket holds the          *)
(* deliverable and its index and no intermediate object.  The code         *)
(* violates it: the run ends at line 195 with the BAMs on disk and in S3.  *)
(***************************************************************************)
C5_CleanupComplete ==
    RunEndedCleanly =>
        /\ local = {}
        /\ remote = {<<bucket, key>>, <<bucket, key \o ".tbi">>}

(***************************************************************************)
(* C6.  Scenario A: one read pair, empty cache, nothing fails: the run     *)
(* makes one alignment, 25 partition calls, one merge and one final        *)
(* upload, and uploads 27 intermediate objects, all deleted at the end.    *)
(* The code violates it: one alignment, no partition call, no merge, no    *)
(* final upload, two intermediate objects that stay.                       *)
(***************************************************************************)
C6_ScenarioA ==
    (RunEndedCleanly /\ Len(args.input_fastq) = 1 /\ cacheAtStart = {}) =>
        /\ Count(LAMBDA e : e[1] = "tool" /\ e[2] = "align") = 1
        /\ Count(LAMBDA e : e[1] = "tool" /\ e[2] = "call_vars") = 25
        /\ Count(LAMBDA e : e[1] = "tool" /\ e[2] = "concat_gvcf") = 1
        /\ Count(LAMBDA e : e = <<"upload", bucket, key, "ok">>) = 1
        /\ Count(LAMBDA e : e[1] = "upload" /\ e[4] = "ok"
                            /\ e[3] \notin {key, key \o ".tbi"}) = 27
        /\ remote \subseteq {<<bucket, key>>, <<bucket, key \o ".tbi">>}

(***************************************************************************)
(* C7.  Scenario B, the cache-or-compute decision.  Hit: a load() that     *)
(* finds the alignment key is followed by the download of the BAM, then of *)
(* its index, then by the next unit's load(); no read download and no tool *)
(* in between.  Miss: at the end of a run on which nothing failed and no   *)
(* partition call was cached, call_vars has run exactly once for every     *)
(* partition and its file and index were uploaded.  The hit half holds     *)
(* (C7_Hit); the code violates the miss half: no partition is ever called. *)
(***************************************************************************)
C7_Hit ==
    \A p \in 1..Len(log) :
        (log[p][1] = "load" /\ log[p][4] = "found") =>
            /\ p + 1 <= Len(log) =>
                  log[p + 1][1] = "download" /\ log[p + 1][3] = log[p][3]
            /\ p + 2 <= Len(log) =>
                  log[p + 2][1] = "download" /\ log[p + 2][3] = log[p][3] \o ".bai"
            /\ p + 3 <= Len(log) => log[p + 3][1] = "load"

C7_Miss ==
    RunEndedCleanly =>
        /\ \A c \in 1..Len(chroms) :
              Count(LAMBDA e : e[1] = "tool" /\ e[2] = "call_vars"
                               /\ e[3] = GvcfLocal(args.sample_name, chroms[c])) = 1
        /\ Count(LAMBDA e : e[1] = "upload" /\ e[4] = "ok"
                            /\ EndsWith(e[3], ".g.vcf.gz")) >= Len(chroms)
        /\ Count(LAMBDA e : e[1] = "upload" /\ e[4] = "ok"
                            /\ EndsWith(e[3], ".g.vcf.gz.tbi")) >= Len(chroms)

C7_CacheOrCompute == C7_Hit /\ C7_Miss

(***************************************************************************)
(* C9.  No rollback: the step that raises changes neither the bucket nor   *)
(* the scratch directory, and once the run has ended by an exception the   *)
(* only thing that happens is a new invocation of the program, which       *)
(* finds the bucket as it was left.  No step of a run removes an object    *)
(* from the bucket.                                                        *)
(***************************************************************************)
C9_NoRollback ==
    /\ [][(pc' = "aborted" /\ pc # "aborted") => (remote' = remote /\ local' = local)]_vars
    /\ [][pc = "aborted" => (run' = run + 1 /\ remote' = remote)]_vars
    /\ [][remote \subseteq remote']_vars

\* a tool has failed after this run uploaded an alignment, with files on disk
C9_Witness ==
    /\ pc = "aborted"
    /\ err = "CalledProcessError"
    /\ \E p \in 1..Len(log) : log[p][1] = "upload" /\ log[p][4] = "ok"
                              /\ <<log[p][2], log[p][3]>> \in remote
    /\ local # {}

(***************************************************************************)
(* C10.  Local cleanup is an idempotent delete: an os.remove that finds    *)
(* its file missing is logged and the run goes on.  The code violates it:  *)
(* no os.remove is guarded, and FileNotFoundError ends the run.            *)
(***************************************************************************)
C10_IdempotentDelete ==
    \A p \in 1..Len(log) :
        (log[p][1] = "remove" /\ log[p][4] = "error") => pc # "aborted"

(***************************************************************************)
(* C12.  Key determinism: in every run, whatever the order of the runs and *)
(* whatever the cache holds, the alignment key recorded for an input_fastq *)
(* is the template applied to (sample name, read group id); and under the  *)
(* default templates two different (sample, read group) pairs give         *)
(* different alignment keys and two different (sample, partition) pairs    *)
(* give different partition-call keys.                                     *)
(***************************************************************************)
KeySamples == {"S1", "S2", "S1/r1", "S"}
KeyReadGroups == {"r1", "r2", "1", ""}

C12_Alignment ==
    \A n \in 1..Len(s3_bams) :
        s3_bams[n] = "1000genomes/BAM/" \o args.sample_name \o "/"
                     \o ReadGroupOf(KeyOf(args.input_fastq[n])) \o ".bam"

C12_NoCollision ==
    /\ \A s1, s2 \in KeySamples : \A r1, r2 \in KeyReadGroups :
          BamKeyOf(DefaultBamKey, s1, r1) = BamKeyOf(DefaultBamKey, s2, r2)
              => (s1 = s2 /\ r1 = r2)
    /\ \A s1, s2 \in KeySamples : \A c1, c2 \in 1..Len(chroms) :
          GvcfKeyOf(DefaultGvcfKey, s1, chroms[c1]) = GvcfKeyOf(DefaultGvcfKey, s2, chroms[c2])
              => (s1 = s2 /\ c1 = c2)

C13_Deliverable ==
    /\ pc # "L131" =>
          LET u   == args.upload_location
              loc == IF StartsWith(u, "s3://") THEN SubSeq(u, 6, Len(u)) ELSE u
              cut == Find(loc, "/")
          IN  /\ bucket = SubSeq(loc, 1, cut)
              /\ key = SubSeq(loc, cut + 2, Len(loc))
    /\ RunEndedCleanly =>
          /\ Count(LAMBDA e : e = <<"upload", bucket, key, "ok">>) = 1
          /\ Count(LAMBDA e : e = <<"upload", bucket, key \o ".tbi", "ok">>) = 1

(***************************************************************************)
(* C14.  Mate-file naming: for a first-mate key that ends in               *)
(* "1.filt.fastq.gz", the second-mate key is that key with its last 15     *)
(* characters replaced by "2.filt.fastq.gz", the read group id is the base *)
(* name less its last 16 characters, and that one id is in the cache key,  *)
(* in the local alignment path and in the read-group tag of the alignment. *)
(***************************************************************************)
C14_MateNaming ==
    (fq1 # "" /\ EndsWith(fq1, "1.filt.fastq.gz")) =>
        LET bn == SubSeq(fq1, RFindBelow(fq1, "/", Len(fq1)) + 2, Len(fq1))
            rg == SubSeq(bn, 1, Len(bn) - 16)
        IN  /\ fq2 = SubSeq(fq1, 1, Len(fq1) - 15) \o "2.filt.fastq.gz"
            /\ read_group_id = rg
            /\ bam_key = "1000genomes/BAM/" \o args.sample_name \o "/" \o rg \o ".bam"
            /\ pc = "L59" =>
                  /\ AlignCommand.read_group
                        = "@RG\\tID:" \o rg \o "\\tSM:" \o args.sample_name
                  /\ AlignCommand.out = "/ephemeral/" \o rg \o "_sorted.bam"
            /\ \A n \in 1..Len(bams) :
                  n = i => bams[n] = "/ephemeral/" \o rg \o "_sorted.bam"

\* the alignment of a first-mate file under a prefix is about to run
C14_Witness ==
    /\ pc = "L59"
    /\ fq1 = "d/r1_1.filt.fastq.gz"
    /\ fq2 = "d/r1_2.filt.fastq.gz"
    /\ read_group_id = "r1"

(***************************************************************************)
(* C15.  Resumption: started again after a run that stopped anywhere, the  *)
(* program never finds an alignment it cannot fetch (a download of a       *)
(* cache object that load() found fails only by a fault of the store,      *)
(* never because the object is missing), and it makes no alignment whose   *)
(* BAM and index were both in the bucket when it started.  The second      *)
(* half holds (C15_NoRecompute); the code violates the first: a run        *)
(* stopped between the uploads of lines 186 and 188 leaves the BAM         *)
(* without its index, load() finds the BAM, and line 177 raises.           *)
(***************************************************************************)
C15_Fetchable ==
    \A p \in 1..Len(log) :
        (log[p][1] = "download" /\ log[p][4] = "error" /\ EndsWith(log[p][3], ".bai"))
            => <<log[p][2], log[p][3]>> \in remote

C15_NoRecompute ==
    pc \in {"L44", "L46", "L59"} =>
        ~({<<bucket, bam_key>>, <<bucket, bam_key \o ".bai">>} \subseteq cacheAtStart)

C15_Resumes == C15_Fetchable /\ C15_NoRecompute

(***************************************************************************)
(* C17.  Every name read by the partition, merge, final-upload and cleanup *)
(* stages has been assigned before it is read, and what is uploaded and    *)
(* removed at the end is the value concat_gvcf returned.  The code         *)
(* violates it: `sample` (line 195) is never assigned; concat_gvcf         *)
(* (line 235) is a local of main that is read before its assignment;       *)
(* gvcf_local and gvcf_index (lines 242-250) are never assigned.           *)
(***************************************************************************)
C17_NamesBound ==
    pc = "L195" =>
        \A line \in {"L195", "L235", "L242"} :
            \A name \in NamesReadAt(line) : Resolves(name, AssignedAt(line))

(***************************************************************************)
(* C18.  Distinct input read-pairs yield distinct read groups: when the    *)
(* alignments are ready, two different input_fastq have different cache    *)
(* keys and different local alignment files.  The code violates it: the    *)
(* read group id is taken from the base name alone, so two locators with   *)
(* the same base name under different prefixes share key and file.         *)
(***************************************************************************)
C18_DistinctReadGroups ==
    pc = "L195" =>
        \A m, n \in 1..Len(args.input_fastq) :
            args.input_fastq[m] # args.input_fastq[n] =>
                (s3_bams[m] # s3_bams[n] /\ bams[m] # bams[n])

(***************************************************************************)
(* C19.  Two processes for the same sample on the same bucket are not      *)
(* isolated on the cache keys: a process can find the BAM of a read group  *)
(* with load() and then fail to fetch that read group.  Whenever the       *)
(* download of a cache object fails because the object is not in the       *)
(* bucket, load() had found the BAM, the BAM is in the bucket, the object  *)
(* that is missing is its index, and the other process has uploaded the    *)
(* BAM (line 186) and not the index (line 188).  C19_Witness is the        *)
(* interleaving itself.                                                    *)
(***************************************************************************)
InLog(l, e) == \E p \in 1..Len(l) : l[p] = e

C19_RaceOnCacheKeys ==
    \A p \in 1..Len(log) :
        ( /\ log[p][1] = "download" /\ log[p][4] = "error"
          /\ log[p][2] = bucket
          /\ log[p][3] \in {bam_key, bam_key \o ".bai"}
          /\ <<log[p][2], log[p][3]>> \notin remote )
        => /\ log[p][3] = bam_key \o ".bai"
           /\ <<bucket, bam_key>> \in remote
           /\ \E q \in 1..(p - 1) : log[q] = <<"load", bucket, bam_key, "found">>
           /\ InLog(peer.log, <<"upload", bucket, bam_key, "ok">>)
           /\ ~InLog(peer.log, <<"upload", bucket, bam_key \o ".bai", "ok">>)

\* one process found the BAM, fetched it and failed on the index, while the
\* other process is between its two uploads
C19_Witness ==
    /\ pc = "aborted" /\ err = "ClientError"
    /\ Len(log) >= 3
    /\ log[Len(log) - 2] = <<"load", bucket, bam_key, "found">>
    /\ log[Len(log) - 1] = <<"download", bucket, bam_key, "ok">>
    /\ log[Len(log)] = <<"download", bucket, bam_key \o ".bai", "error">>
    /\ <<bucket, bam_key \o ".bai">> \notin remote
    /\ peer.pc = "L188" /\ peer.err = "none"
    /\ peer.bam_key = bam_key
====
